---- MODULE Spec2Model ----
(***************************************************************************)
(* Model of src/header/common/access_control_allow_origin.rs: the typed    *)
(* Access-Control-Allow-Origin header, its parse_header and fmt_header.    *)
(*                                                                         *)
(* A byte string is a sequence of naturals in 0..255; raw header lines are *)
(* a sequence of byte strings (&[Vec<u8>]).                                *)
(***************************************************************************)
EXTENDS Naturals, Sequences, FiniteSets

(***************************************************************************)
(* Bounds of the model.                                                    *)
(***************************************************************************)
\* longest byte string enumerated exhaustively over Alphabet
MaxLen == 4
\* largest number of header lines in one raw input
MaxEntries == 2

(***************************************************************************)
(* Byte literals.                                                          *)
(***************************************************************************)
\* b"*" (line 68, line 79)
LitAny == <<42>>
\* b"null" (line 69, line 80)
LitNull == <<110, 117, 108, 108>>
\* "Access-Control-Allow-Origin" (line 62)
header_name ==
    <<65, 99, 99, 101, 115, 115, 45, 67, 111, 110, 116, 114, 111, 108, 45,
      65, 108, 108, 111, 119, 45, 79, 114, 105, 103, 105, 110>>

\* the ASCII bytes the URL syntax gives a meaning to
Ch == [sp |-> 32, pct |-> 37, plus |-> 43, minus |-> 45, dot |-> 46,
       slash |-> 47, zero |-> 48, nine |-> 57, colon |-> 58,
       upA |-> 65, upZ |-> 90, lowA |-> 97, lowZ |-> 122]

IsUpper(c) == c >= Ch.upA /\ c <= Ch.upZ
IsAlpha(c) == IsUpper(c) \/ (c >= Ch.lowA /\ c <= Ch.lowZ)
IsDigit(c) == c >= Ch.zero /\ c <= Ch.nine
to_ascii_lowercase_byte(c) == IF IsUpper(c) THEN c + 32 ELSE c
to_ascii_lowercase(s) == [i \in 1..Len(s) |-> to_ascii_lowercase_byte(s[i])]
Drop(s, n) == SubSeq(s, n + 1, Len(s))

(***************************************************************************)
(* Result<T, E>.                                                           *)
(***************************************************************************)
Ok(v) == [ok |-> TRUE, val |-> v]
Err(e) == [ok |-> FALSE, err |-> e]

(***************************************************************************)
(* str::from_utf8 (called at line 70): Ok(the same bytes, now a str) when  *)
(* the bytes are well-formed UTF-8, Err(Utf8Error) otherwise.              *)
(***************************************************************************)
IsCont(c) == c >= 128 /\ c <= 191

RECURSIVE run_utf8_validation(_, _)
run_utf8_validation(b, i) ==
    IF i > Len(b) THEN TRUE
    ELSE LET first == b[i]
             has(k) == i + k <= Len(b)
         IN  IF first < 128 THEN run_utf8_validation(b, i + 1)
             ELSE IF first >= 194 /\ first <= 223
             THEN has(1) /\ IsCont(b[i + 1]) /\ run_utf8_validation(b, i + 2)
             ELSE IF first >= 224 /\ first <= 239
             THEN /\ has(2)
                  /\ \/ first = 224 /\ b[i + 1] >= 160 /\ b[i + 1] <= 191
                     \/ first >= 225 /\ first <= 236 /\ IsCont(b[i + 1])
                     \/ first = 237 /\ b[i + 1] >= 128 /\ b[i + 1] <= 159
                     \/ first >= 238 /\ IsCont(b[i + 1])
                  /\ IsCont(b[i + 2])
                  /\ run_utf8_validation(b, i + 3)
             ELSE IF first >= 240 /\ first <= 244
             THEN /\ has(3)
                  /\ \/ first = 240 /\ b[i + 1] >= 144 /\ b[i + 1] <= 191
                     \/ first >= 241 /\ first <= 243 /\ IsCont(b[i + 1])
                     \/ first = 244 /\ b[i + 1] >= 128 /\ b[i + 1] <= 143
                  /\ IsCont(b[i + 2])
                  /\ IsCont(b[i + 3])
                  /\ run_utf8_validation(b, i + 4)
             ELSE FALSE

from_utf8(b) ==
    IF run_utf8_validation(b, 1) THEN Ok(b) ELSE Err("Utf8Error")

(***************************************************************************)
(* url::Url and Url::parse (called at line 70), for inputs over the bytes  *)
(* the model feeds it: no '?', '#', '@', '\', '[', ']', tab, CR, LF, and   *)
(* no "file" scheme, so a Url has no userinfo, query or fragment.          *)
(*   scheme   lower-cased scheme                                           *)
(*   relative TRUE for the schemes with an authority (http, ws, ...)       *)
(*   host     lower-cased domain            (relative schemes)             *)
(*   port     <<>> or <<n>>, never the scheme's default port               *)
(*   path     sequence of percent-encoded segments, never empty            *)
(*   data     percent-encoded scheme data   (non-relative schemes)         *)
(***************************************************************************)
Whitespace == {Ch.sp, 9, 10, 13, 12}

RECURSIVE trim_start(_)
trim_start(s) ==
    IF s # <<>> /\ s[1] \in Whitespace THEN trim_start(Tail(s)) ELSE s

RECURSIVE trim_end(_)
trim_end(s) ==
    IF s # <<>> /\ s[Len(s)] \in Whitespace
    THEN trim_end(SubSeq(s, 1, Len(s) - 1)) ELSE s

trim_matches(s) == trim_end(trim_start(s))

HexDigit(d) == IF d < 10 THEN Ch.zero + d ELSE Ch.upA + (d - 10)
percent_encode_byte(c) == <<Ch.pct, HexDigit(c \div 16), HexDigit(c % 16)>>

SIMPLE_ENCODE_SET(c) == c < 32 \/ c > 126
DEFAULT_ENCODE_SET(c) == SIMPLE_ENCODE_SET(c) \/ c \in {32, 34, 35, 60, 62, 63, 96}

RECURSIVE utf8_percent_encode(_, _)
utf8_percent_encode(s, simple) ==
    IF s = <<>> THEN <<>>
    ELSE LET c == s[1]
             enc == IF simple THEN SIMPLE_ENCODE_SET(c) ELSE DEFAULT_ENCODE_SET(c)
         IN  (IF enc THEN percent_encode_byte(c) ELSE <<c>>)
                 \o utf8_percent_encode(Tail(s), simple)

\* index of the ':' that ends the scheme, 0 when the input has no scheme
RECURSIVE scheme_end(_, _)
scheme_end(s, i) ==
    IF i > Len(s) THEN 0
    ELSE IF s[i] = Ch.colon THEN i
    ELSE IF IsAlpha(s[i]) \/ IsDigit(s[i]) \/ s[i] \in {Ch.plus, Ch.minus, Ch.dot}
    THEN scheme_end(s, i + 1)
    ELSE 0

parse_scheme(input) ==
    IF input = <<>> \/ ~IsAlpha(input[1]) THEN Err("NoScheme")
    ELSE LET i == scheme_end(input, 1)
         IN  IF i = 0 THEN Err("NoScheme")
             ELSE Ok([scheme |-> to_ascii_lowercase(SubSeq(input, 1, i - 1)),
                      remaining |-> Drop(input, i)])

SchemeHttp == <<104, 116, 116, 112>>
SchemeWs == <<119, 115>>
SchemeFtp == <<102, 116, 112>>
SchemeGopher == <<103, 111, 112, 104, 101, 114>>

\* <<>> for a non-relative scheme, <<default port>> for a relative one
default_port(scheme) ==
    IF scheme = SchemeHttp \/ scheme = SchemeWs THEN <<80>>
    ELSE IF scheme = SchemeHttp \o <<115>> \/ scheme = SchemeWs \o <<115>> THEN <<443>>
    ELSE IF scheme = SchemeFtp THEN <<21>>
    ELSE IF scheme = SchemeGopher THEN <<70>>
    ELSE <<>>

RECURSIVE skip_slashes(_)
skip_slashes(s) ==
    IF s # <<>> /\ s[1] = Ch.slash THEN skip_slashes(Tail(s)) ELSE s

\* length of the longest prefix of s holding none of the bytes in stop
RECURSIVE span(_, _)
span(s, stop) ==
    IF s = <<>> \/ s[1] \in stop THEN 0 ELSE 1 + span(Tail(s), stop)

InvalidDomainCharacter == {0, 9, 10, 13, 32, 35, 37, 47, 58, 63, 64, 91, 92, 93}

Host_parse(input) ==
    IF input = <<>> THEN Err("EmptyHost")
    ELSE IF \E i \in 1..Len(input) : input[i] > 127
    THEN Err("NonAsciiDomainsNotSupportedYet")
    ELSE IF \E i \in 1..Len(input) : input[i] \in InvalidDomainCharacter
    THEN Err("InvalidDomainCharacter")
    ELSE Ok(to_ascii_lowercase(input))

\* the digits of input up to '/' or the end, as a number; Err on any other
\* byte and on a value above u16::MAX
RECURSIVE parse_port_digits(_, _)
parse_port_digits(s, acc) ==
    IF s = <<>> \/ s[1] = Ch.slash THEN Ok(acc)
    ELSE IF ~IsDigit(s[1]) THEN Err("InvalidPort")
    ELSE LET port == acc * 10 + (s[1] - Ch.zero)
         IN  IF port > 65535 THEN Err("InvalidPort")
             ELSE parse_port_digits(Tail(s), port)

parse_port(input, scheme) ==
    LET n == span(input, {Ch.slash})
        r == parse_port_digits(input, 0)
        has_any_digit == n > 0
    IN  IF ~r.ok THEN r
        ELSE Ok([port |-> IF ~has_any_digit \/ <<r.val>> = default_port(scheme)
                          THEN <<>> ELSE <<r.val>>,
                 remaining |-> Drop(input, n)])

DotSegment == <<Ch.dot>>
DotDotSegment == <<Ch.dot, Ch.dot>>

\* the path loop of parse_path: one iteration per '/'-separated part
RECURSIVE parse_path(_, _)
parse_path(path, input) ==
    LET n == span(input, {Ch.slash})
        ends_with_slash == n < Len(input)
        path_part == utf8_percent_encode(SubSeq(input, 1, n), FALSE)
        popped == IF path = <<>> THEN path ELSE SubSeq(path, 1, Len(path) - 1)
        next == IF path_part = DotDotSegment
                THEN IF ends_with_slash THEN popped ELSE Append(popped, <<>>)
                ELSE IF path_part = DotSegment
                THEN IF ends_with_slash THEN path ELSE Append(path, <<>>)
                ELSE Append(path, path_part)
    IN  IF ends_with_slash THEN parse_path(next, Drop(input, n + 1)) ELSE next

parse_path_start(input) ==
    parse_path(<<>>, IF input # <<>> /\ input[1] = Ch.slash THEN Tail(input) ELSE input)

parse_absolute_url(scheme, rest) ==
    LET remaining == skip_slashes(rest)
        n == span(remaining, {Ch.colon, Ch.slash})
        host == Host_parse(SubSeq(remaining, 1, n))
        after_host == Drop(remaining, n)
        port == IF after_host # <<>> /\ after_host[1] = Ch.colon
                THEN parse_port(Tail(after_host), scheme)
                ELSE Ok([port |-> <<>>, remaining |-> after_host])
    IN  IF ~host.ok THEN host
        ELSE IF ~port.ok THEN port
        ELSE Ok([scheme |-> scheme, relative |-> TRUE, host |-> host.val,
                 port |-> port.val.port,
                 path |-> parse_path_start(port.val.remaining), data |-> <<>>])

Url_parse(input0) ==
    LET input == trim_matches(input0)
        s == parse_scheme(input)
    IN  IF ~s.ok THEN Err("RelativeUrlWithoutBase")
        ELSE IF default_port(s.val.scheme) # <<>>
        THEN parse_absolute_url(s.val.scheme, s.val.remaining)
        ELSE Ok([scheme |-> s.val.scheme, relative |-> FALSE, host |-> <<>>,
                 port |-> <<>>, path |-> <<>>,
                 data |-> utf8_percent_encode(s.val.remaining, TRUE)])

(***************************************************************************)
(* Display for Url (called at line 81): the serialized URL.                *)
(***************************************************************************)
RECURSIVE to_digits(_)
to_digits(n) ==
    IF n < 10 THEN <<Ch.zero + n>>
    ELSE to_digits(n \div 10) \o <<Ch.zero + (n % 10)>>

RECURSIVE fmt_path(_)
fmt_path(path) ==
    IF path = <<>> THEN <<>>
    ELSE <<Ch.slash>> \o path[1] \o fmt_path(Tail(path))

Url_fmt(url) ==
    url.scheme \o <<Ch.colon>> \o
    (IF url.relative
     THEN <<Ch.slash, Ch.slash>> \o url.host
          \o (IF url.port = <<>> THEN <<>> ELSE <<Ch.colon>> \o to_digits(url.port[1]))
          \o (IF url.path = <<>> THEN <<Ch.slash>> ELSE fmt_path(url.path))
     ELSE url.data)

(***************************************************************************)
(* AccessControlAllowOrigin (lines 50-58).                                 *)
(***************************************************************************)
Any == [tag |-> "Any"]
Null == [tag |-> "Null"]
Value(url) == [tag |-> "Value", url |-> url]

\* ::Error::Header (line 72)
Error_Header == "Header"
\* the conversions try! applies to the two library errors of line 70
From_Utf8Error(e) == "EncodingError"
From_ParseError(e) == "FormatError"

(***************************************************************************)
(* Faulty variants of parse_header, used to show that the properties       *)
(* below depend on the code.                                               *)
(***************************************************************************)
\* the literal and URL arms of lines 68-70 on one entry
parse_entry(r) ==
    IF r = LitAny THEN [result |-> Ok(Any), calls |-> <<>>]
    ELSE IF r = LitNull THEN [result |-> Ok(Null), calls |-> <<>>]
    ELSE LET s == from_utf8(r)
         IN  IF ~s.ok
             THEN [result |-> Err(From_Utf8Error(s.err)), calls |-> <<"from_utf8">>]
             ELSE LET u == Url_parse(s.val)
                  IN  [result |-> IF u.ok THEN Ok(Value(u.val))
                                  ELSE Err(From_ParseError(u.err)),
                       calls |-> <<"from_utf8", "Url::parse">>]

\* reads the first line whenever there is one (raw.len() >= 1)
parse_header_first(raw) ==
    IF Len(raw) >= 1 THEN parse_entry(raw[1])
    ELSE [result |-> Err(Error_Header), calls |-> <<>>]

\* trims and case-folds the entry before matching the literals
parse_header_lenient(raw) ==
    IF Len(raw) = 1
    THEN LET r == to_ascii_lowercase(trim_matches(raw[1]))
         IN  IF r = LitAny \/ r = LitNull THEN parse_entry(r)
             ELSE parse_entry(raw[1])
    ELSE [result |-> Err(Error_Header), calls |-> <<>>]

\* decodes lossily: every byte above 127 becomes '?', and nothing fails
parse_header_lossy(raw) ==
    IF Len(raw) = 1
    THEN parse_entry([i \in 1..Len(raw[1]) |->
                        IF raw[1][i] > 127 THEN 63 ELSE raw[1][i]])
    ELSE [result |-> Err(Error_Header), calls |-> <<>>]

\* answers Null, the hidden origin, for text that is no URL
parse_header_fallback(raw) ==
    LET p == IF Len(raw) = 1 THEN parse_entry(raw[1])
             ELSE [result |-> Err(Error_Header), calls |-> <<>>]
    IN  IF ~p.result.ok /\ p.result.err = "FormatError"
        THEN [result |-> Ok(Null), calls |-> p.calls]
        ELSE p

(***************************************************************************)
(* parse_header (lines 65-73).  result is the ::Result returned; calls is  *)
(* the sequence of library calls made on the way.                          *)
(***************************************************************************)
parse_header(raw) ==
    IF Len(raw) = 1
    THEN LET r == raw[1]
         IN  IF r = LitAny THEN [result |-> Ok(Any), calls |-> <<>>]
             ELSE IF r = LitNull THEN [result |-> Ok(Null), calls |-> <<>>]
             ELSE LET s == from_utf8(r)
                  IN  IF ~s.ok
                      THEN [result |-> Err(From_Utf8Error(s.err)),
                            calls |-> <<"from_utf8">>]
                      ELSE LET u == Url_parse(s.val)
                           IN  [result |-> IF u.ok THEN Ok(Value(u.val))
                                           ELSE Err(From_ParseError(u.err)),
                                calls |-> <<"from_utf8", "Url::parse">>]
    ELSE [result |-> Err(Error_Header), calls |-> <<>>]

(***************************************************************************)
(* Faulty variants of fmt_header.                                          *)
(***************************************************************************)
\* the two literals exchanged
fmt_header_swapped(self) ==
    IF self.tag = "Any" THEN Ok(LitNull)
    ELSE IF self.tag = "Null" THEN Ok(LitAny)
    ELSE Ok(Url_fmt(self.url))

\* writes the origin (scheme://host) of a Value and drops port and path
fmt_header_origin(self) ==
    IF self.tag = "Any" THEN Ok(LitAny)
    ELSE IF self.tag = "Null" THEN Ok(LitNull)
    ELSE IF self.url.relative
    THEN Ok(self.url.scheme \o <<Ch.colon, Ch.slash, Ch.slash>> \o self.url.host)
    ELSE Ok(Url_fmt(self.url))

\* writes only the host of a Value
fmt_header_host(self) ==
    IF self.tag = "Any" THEN Ok(LitAny)
    ELSE IF self.tag = "Null" THEN Ok(LitNull)
    ELSE Ok(self.url.host)

\* fails on a Value that has no host
fmt_header_partial(self) ==
    IF self.tag = "Any" THEN Ok(LitAny)
    ELSE IF self.tag = "Null" THEN Ok(LitNull)
    ELSE IF self.url.relative THEN Ok(Url_fmt(self.url))
    ELSE Err("fmt::Error")

\* writes a Value without its scheme when the scheme has no authority
fmt_header_no_scheme(self) ==
    IF self.tag = "Any" THEN Ok(LitAny)
    ELSE IF self.tag = "Null" THEN Ok(LitNull)
    ELSE IF self.url.relative THEN Ok(Url_fmt(self.url))
    ELSE Ok(self.url.data)

(***************************************************************************)
(* fmt_header (lines 77-83), writing to an in-memory formatter: the        *)
(* fmt::Result with the bytes written.                                     *)
(***************************************************************************)
fmt_header(self) ==
    IF self.tag = "Any" THEN Ok(LitAny)
    ELSE IF self.tag = "Null" THEN Ok(LitNull)
    ELSE Ok(Url_fmt(self.url))

(***************************************************************************)
(* Inputs.                                                                 *)
(***************************************************************************)
\* "*"
SmpAny ==
    <<42>>
\* "null"
SmpNull ==
    <<110, 117, 108, 108>>
\* "http://google.com/"
SmpGoogle ==
    <<104, 116, 116, 112, 58, 47, 47, 103, 111, 111, 103, 108, 101, 46, 99,
    111, 109, 47>>
\* "http://hyper.rs"
SmpHyper ==
    <<104, 116, 116, 112, 58, 47, 47, 104, 121, 112, 101, 114, 46, 114,
    115>>
\* "NULL"
SmpUpperNull ==
    <<78, 85, 76, 76>>
\* "Null"
SmpCapNull ==
    <<78, 117, 108, 108>>
\* " *"
SmpSpaceAny ==
    <<32, 42>>
\* "null "
SmpNullSpace ==
    <<110, 117, 108, 108, 32>>
\* "**"
SmpAnyAny ==
    <<42, 42>>
\* "nulls"
SmpNulls ==
    <<110, 117, 108, 108, 115>>
\* "not a url"
SmpNotUrl ==
    <<110, 111, 116, 32, 97, 32, 117, 114, 108>>
\* "/relative"
SmpRelative ==
    <<47, 114, 101, 108, 97, 116, 105, 118, 101>>
\* "//google.com/"
SmpNoScheme ==
    <<47, 47, 103, 111, 111, 103, 108, 101, 46, 99, 111, 109, 47>>
\* "google.com"
SmpBare ==
    <<103, 111, 111, 103, 108, 101, 46, 99, 111, 109>>
\* "HTTP://Google.COM"
SmpUpperUrl ==
    <<72, 84, 84, 80, 58, 47, 47, 71, 111, 111, 103, 108, 101, 46, 67, 79,
    77>>
\* "http://google.com:80/"
SmpPort80 ==
    <<104, 116, 116, 112, 58, 47, 47, 103, 111, 111, 103, 108, 101, 46, 99,
    111, 109, 58, 56, 48, 47>>
\* "http://google.com:8080/x"
SmpPort8080 ==
    <<104, 116, 116, 112, 58, 47, 47, 103, 111, 111, 103, 108, 101, 46, 99,
    111, 109, 58, 56, 48, 56, 48, 47, 120>>
\* "http://g:65536/"
SmpBigPort ==
    <<104, 116, 116, 112, 58, 47, 47, 103, 58, 54, 53, 53, 51, 54, 47>>
\* "http:///"
SmpEmptyHost ==
    <<104, 116, 116, 112, 58, 47, 47, 47>>
\* "http://"
SmpNoHost ==
    <<104, 116, 116, 112, 58, 47, 47>>
\* " http://google.com/ "
SmpPadded ==
    <<32, 104, 116, 116, 112, 58, 47, 47, 103, 111, 111, 103, 108, 101, 46,
    99, 111, 109, 47, 32>>
\* "mailto:a"
SmpMailto ==
    <<109, 97, 105, 108, 116, 111, 58, 97>>
\* '\xff'
SmpInvalidUtf8 ==
    <<255>>
\* 'http://g/\xc3'
SmpTruncated ==
    <<104, 116, 116, 112, 58, 47, 47, 103, 47, 195>>
\* '\xc0\xaf'
SmpOverlong ==
    <<192, 175>>
\* 'http://g/\xc3\xa9'
SmpAccent ==
    <<104, 116, 116, 112, 58, 47, 47, 103, 47, 195, 169>>
\* 'http://\xc3\xa9/'
SmpAccentHost ==
    <<104, 116, 116, 112, 58, 47, 47, 195, 169, 47>>
\* "http://g/a/../b/."
SmpDots ==
    <<104, 116, 116, 112, 58, 47, 47, 103, 47, 97, 47, 46, 46, 47, 98, 47,
    46>>
\* 'a:\xc3\xa9'
SmpOpaqueAccent ==
    <<97, 58, 195, 169>>
\* "null:"
SmpNullScheme ==
    <<110, 117, 108, 108, 58>>
\* "http://g/*"
SmpStarPath ==
    <<104, 116, 116, 112, 58, 47, 47, 103, 47, 42>>
Samples ==
    {SmpAny, SmpNull, SmpGoogle, SmpHyper, SmpUpperNull, SmpCapNull,
    SmpSpaceAny, SmpNullSpace, SmpAnyAny, SmpNulls, SmpNotUrl, SmpRelative,
    SmpNoScheme, SmpBare, SmpUpperUrl, SmpPort80, SmpPort8080, SmpBigPort,
    SmpEmptyHost, SmpNoHost, SmpPadded, SmpMailto, SmpInvalidUtf8,
    SmpTruncated, SmpOverlong, SmpAccent, SmpAccentHost, SmpDots,
    SmpOpaqueAccent, SmpNullScheme, SmpStarPath}

\* scheme: "http", "HTTP", "ws", "a", "null"
GenScheme ==
    {<<104, 116, 116, 112>>, <<72, 84, 84, 80>>, <<119, 115>>, <<97>>, <<110,
    117, 108, 108>>}
\* slashes after the scheme: "", "/", "//"
GenSlashes ==
    {<<>>, <<47>>, <<47, 47>>}
\* host: "", "g", "G.c", "g e"
GenHost ==
    {<<>>, <<103>>, <<71, 46, 99>>, <<103, 32, 101>>}
\* port: "", ":", ":80", ":8", ":x"
GenPort ==
    {<<>>, <<58>>, <<58, 56, 48>>, <<58, 56>>, <<58, 120>>}
\* path: "", "/", "/p", "/./p", "/p/..", "/p q"
GenPath ==
    {<<>>, <<47>>, <<47, 112>>, <<47, 46, 47, 112>>, <<47, 112, 47, 46, 46>>,
    <<47, 112, 32, 113>>}

Generated ==
    {s \o <<Ch.colon>> \o sl \o h \o po \o pa :
        s \in GenScheme, sl \in GenSlashes, h \in GenHost,
        po \in GenPort, pa \in GenPath}

\* '*', ' ', 'n', 'N', 'a', ':', '/', the two bytes of U+00E9, and 0xFF
Alphabet == {42, 32, 110, 78, 97, 58, 47, 195, 169, 255}
ByteStrings == UNION {[1..k -> Alphabet] : k \in 0..MaxLen}

Entries == Samples \cup Generated \cup ByteStrings

\* the entries of the inputs with several header lines
MultiEntries == {SmpAny, SmpNull, SmpGoogle, SmpNotUrl, SmpInvalidUtf8, <<>>}

RawInputs ==
    {<<>>} \cup {<<e>> : e \in Entries}
           \cup UNION {[1..k -> MultiEntries] : k \in 2..MaxEntries}

(***************************************************************************)
(* The callers.  Each caller owns one raw input and runs the sequence of   *)
(* the header tests: parse the raw lines, format the typed value, format   *)
(* it a second time, and parse the formatted line again.                   *)
(*   pc       "idle" | "start" | "failed" | "parsed" | "formatted"         *)
(*            | "formatted2" | "done"                                      *)
(*   parsed   the ::Result of parse_header(raw)                            *)
(*   calls    the library calls that parse made                            *)
(*   wire     the bytes fmt_header wrote, wire2 those of the second call   *)
(*   reparsed the ::Result of parse_header on the single line wire         *)
(***************************************************************************)
\* number of callers running side by side
NumCallers == 2
Callers == 1..NumCallers

VARIABLES raw, pc, parsed, calls, wire, wire2, reparsed
vars == <<raw, pc, parsed, calls, wire, wire2, reparsed>>

NotYet == Err("NotYet")

\* the inputs of the callers that run side by side
ConcInputs ==
    {<<>>, <<SmpAny>>, <<SmpNull>>, <<SmpGoogle>>, <<SmpUpperUrl>>,
     <<SmpNotUrl>>, <<SmpInvalidUtf8>>, <<SmpAny, SmpNull>>}

InitRest ==
    /\ parsed = [c \in Callers |-> NotYet]
    /\ calls = [c \in Callers |-> <<>>]
    /\ wire = [c \in Callers |-> NotYet]
    /\ wire2 = [c \in Callers |-> NotYet]
    /\ reparsed = [c \in Callers |-> NotYet]

\* one caller at work, on any input
Init ==
    /\ \E r \in RawInputs : raw = [c \in Callers |-> IF c = 1 THEN r ELSE <<>>]
    /\ pc = [c \in Callers |-> IF c = 1 THEN "start" ELSE "idle"]
    /\ InitRest

\* every caller at work
InitConc ==
    /\ raw \in [Callers -> ConcInputs]
    /\ pc = [c \in Callers |-> "start"]
    /\ InitRest

\* a parse that keeps its result in one slot shared by all callers
Parse_shared(c) ==
    /\ pc[c] = "start"
    /\ LET p == parse_header(raw[c])
       IN  /\ parsed' = [d \in Callers |-> p.result]
           /\ calls' = [calls EXCEPT ![c] = p.calls]
           /\ pc' = [pc EXCEPT ![c] = IF p.result.ok THEN "parsed" ELSE "failed"]
    /\ UNCHANGED <<raw, wire, wire2, reparsed>>

Parse(c) ==
    /\ pc[c] = "start"
    /\ LET p == parse_header(raw[c])
       IN  /\ parsed' = [parsed EXCEPT ![c] = p.result]
           /\ calls' = [calls EXCEPT ![c] = p.calls]
           /\ pc' = [pc EXCEPT ![c] = IF p.result.ok THEN "parsed" ELSE "failed"]
    /\ UNCHANGED <<raw, wire, wire2, reparsed>>

Format(c) ==
    /\ pc[c] = "parsed"
    /\ wire' = [wire EXCEPT ![c] = fmt_header(parsed[c].val)]
    /\ pc' = [pc EXCEPT ![c] = "formatted"]
    /\ UNCHANGED <<raw, parsed, calls, wire2, reparsed>>

FormatAgain(c) ==
    /\ pc[c] = "formatted"
    /\ wire2' = [wire2 EXCEPT ![c] = fmt_header(parsed[c].val)]
    /\ pc' = [pc EXCEPT ![c] = "formatted2"]
    /\ UNCHANGED <<raw, parsed, calls, wire, reparsed>>

Reparse(c) ==
    /\ pc[c] = "formatted2"
    /\ wire[c].ok
    /\ reparsed' = [reparsed EXCEPT ![c] = parse_header(<<wire[c].val>>).result]
    /\ pc' = [pc EXCEPT ![c] = "done"]
    /\ UNCHANGED <<raw, parsed, calls, wire, wire2>>

Next ==
    \E c \in Callers :
        \/ Parse(c)
        \/ Format(c)
        \/ FormatAgain(c)
        \/ Reparse(c)

Spec == Init /\ [][Next]_vars
SpecConc == InitConc /\ [][Next]_vars

(***************************************************************************)
(* Properties.                                                             *)
(***************************************************************************)
AfterParse(c) == pc[c] \in {"failed", "parsed", "formatted", "formatted2", "done"}
AfterFormat(c) == pc[c] \in {"formatted", "formatted2", "done"}
IsLiteral(e) == e = LitAny \/ e = LitNull
\* one header line that is neither literal
SingleOther(c) == Len(raw[c]) = 1 /\ ~IsLiteral(raw[c][1])
\* one header line holding a syntactically valid absolute URL
SingleUrl(c) ==
    /\ SingleOther(c)
    /\ from_utf8(raw[c][1]).ok
    /\ Url_parse(raw[c][1]).ok

\* C1: a raw input whose number of lines is not exactly 1 fails with the
\* multiplicity error (Error::Header) whatever the lines hold, and no line
\* is decoded or parsed.
C1_Multiplicity ==
    \A c \in Callers :
        AfterParse(c) /\ Len(raw[c]) # 1 =>
            /\ parsed[c] = Err(Error_Header)
            /\ calls[c] = <<>>
            /\ pc[c] = "failed"

\* several lines, the first of which alone would parse to Any, and the
\* empty input, both failed
C1_Witness ==
    \E c \in Callers :
        /\ pc[c] = "failed"
        /\ Len(raw[c]) = 2
        /\ raw[c][1] = LitAny
        /\ raw[c][2] = SmpGoogle

\* C2: the line "*" parses to Any and Any is written as "*"; the line
\* "null" parses to Null and Null is written as "null"; the written line
\* parses to the same variant again.
C2_ConstantRoundTrip ==
    \A c \in Callers :
        Len(raw[c]) = 1 /\ IsLiteral(raw[c][1]) =>
            /\ AfterParse(c) =>
                parsed[c] = Ok(IF raw[c][1] = LitAny THEN Any ELSE Null)
            /\ AfterFormat(c) => wire[c] = Ok(raw[c][1])
            /\ pc[c] = "done" => reparsed[c] = parsed[c]

C2_Witness ==
    \E c \in Callers :
        /\ pc[c] = "done"
        /\ raw[c] = <<LitNull>>
        /\ parsed[c] = Ok(Null)
        /\ wire[c] = Ok(LitNull)

\* C3: a single line that differs from "*" and from "null" in any way never
\* parses to Any or Null; it is handed to UTF-8 decoding, and when it
\* decodes, to URL parsing.
C3_ExactLiterals ==
    \A c \in Callers :
        AfterParse(c) /\ SingleOther(c) =>
            /\ parsed[c] # Ok(Any)
            /\ parsed[c] # Ok(Null)
            /\ calls[c] # <<>>
            /\ calls[c][1] = "from_utf8"
            /\ from_utf8(raw[c][1]).ok => calls[c] = <<"from_utf8", "Url::parse">>

\* "NULL", which a case-folding match would take for the null literal
C3_Witness ==
    \E c \in Callers :
        /\ AfterParse(c)
        /\ raw[c] = <<SmpUpperNull>>
        /\ calls[c] = <<"from_utf8", "Url::parse">>

\* C4: a single line that is neither literal and is not valid UTF-8 fails
\* with EncodingError, and the URL parser is never reached.
C4_EncodingError ==
    \A c \in Callers :
        AfterParse(c) /\ SingleOther(c) /\ ~run_utf8_validation(raw[c][1], 1) =>
            /\ parsed[c] = Err("EncodingError")
            /\ calls[c] = <<"from_utf8">>

\* a URL followed by a truncated UTF-8 sequence
C4_Witness ==
    \E c \in Callers :
        /\ pc[c] = "failed"
        /\ raw[c] = <<SmpTruncated>>

\* C5: a single line that is valid UTF-8, neither literal, and no valid
\* absolute URL fails with FormatError; a Value is returned only when URL
\* parsing of the decoded text succeeded, and holds the parsed URL.
C5_FormatError ==
    \A c \in Callers :
        AfterParse(c) =>
            /\ SingleOther(c) /\ from_utf8(raw[c][1]).ok /\ ~Url_parse(raw[c][1]).ok
                => parsed[c] = Err("FormatError")
            /\ parsed[c].ok /\ parsed[c].val.tag = "Value"
                => SingleUrl(c) /\ parsed[c].val.url = Url_parse(raw[c][1]).val

C5_Witness ==
    \E c \in Callers :
        /\ pc[c] = "failed"
        /\ raw[c] = <<SmpNotUrl>>
        /\ calls[c] = <<"from_utf8", "Url::parse">>

\* C6: for a single line holding a valid absolute URL, parse yields a Value,
\* and the line fmt_header writes for it parses to an equal Value.
C6_UrlRoundTrip ==
    \A c \in Callers :
        SingleUrl(c) =>
            /\ AfterParse(c) => parsed[c].ok /\ parsed[c].val.tag = "Value"
            /\ pc[c] = "done" => reparsed[c] = parsed[c]

\* a URL with a port and a path other than "/", whose written form differs
\* from the input
C6_Witness ==
    \E c \in Callers :
        /\ pc[c] = "done"
        /\ SingleUrl(c)
        /\ wire[c].val # raw[c][1]
        /\ parsed[c].val.url.port # <<>>
        /\ parsed[c].val.url.path # <<<<>>>>

\* C7: for the documented example values "null", "*" and
\* "http://google.com/", parse succeeds and fmt_header writes the input
\* bytes back exactly.
C7_CanonicalExamples ==
    \A c \in Callers :
        raw[c] \in {<<SmpNull>>, <<SmpAny>>, <<SmpGoogle>>} =>
            /\ AfterParse(c) => parsed[c].ok
            /\ AfterFormat(c) => wire[c] = Ok(raw[c][1])

C7_Witness ==
    \E c \in Callers :
        /\ AfterFormat(c)
        /\ raw[c] = <<SmpGoogle>>
        /\ parsed[c].val.tag = "Value"

C9_Pure ==
    [][ /\ raw' = raw
        /\ \A c \in Callers :
            /\ pc'[c] = pc[c] =>
                /\ parsed'[c] = parsed[c]
                /\ calls'[c] = calls[c]
                /\ wire'[c] = wire[c]
                /\ wire2'[c] = wire2[c]
                /\ reparsed'[c] = reparsed[c]
            /\ AfterParse(c)' => parsed'[c] = parse_header(raw[c]).result
            /\ AfterFormat(c)' => wire'[c] = fmt_header(parse_header(raw[c]).result.val)
      ]_vars

\* two callers on different inputs, one done and one failed
C9_Witness ==
    /\ pc[1] = "done"
    /\ pc[2] = "failed"
    /\ raw[1] = <<SmpUpperUrl>>
    /\ raw[2] = <<SmpAny, SmpNull>>

\* C10: the line written for a Value is neither "*" nor "null", and the line
\* written for any parsed value parses to a value of the same variant.
C10_NoCollision ==
    \A c \in Callers :
        /\ AfterFormat(c) /\ parsed[c].val.tag = "Value"
            => wire[c].ok /\ ~IsLiteral(wire[c].val)
        /\ pc[c] = "done"
            => reparsed[c].ok /\ reparsed[c].val.tag = parsed[c].val.tag

\* the URL "a:*", whose scheme data alone is the wildcard literal
C10_Witness ==
    \E c \in Callers :
        /\ pc[c] = "done"
        /\ raw[c] = <<<<97, 58, 42>>>>
        /\ reparsed[c].val.tag = "Value"

====
